---- MODULE Spec2Model ----
(***************************************************************************)
(* Model of Assignment2.py: read_data, Statistics, Statistics_line and     *)
(* correlations over a wide-format indicator table.                        *)
(*                                                                         *)
(* A frame is a record [columns, index, data]: the column labels, the row  *)
(* labels and the cells, row-major (data[i][j] is row i, column j, both    *)
(* 1-based here; pandas positions are 0-based and are converted where a    *)
(* slice is taken).  Labels and cells are all of one shape, a record       *)
(* [k, s, n]: k = "nan" is a missing value, k = "str" a string s (the      *)
(* j-th year label of the file is the string cell with s = "Y", n = j),    *)
(* k = "num" a number n.                                                   *)
(***************************************************************************)
EXTENDS Integers, Sequences, FiniteSets, TLC

VARIABLES
    csv,            \* the table held by the file "climate.csv"
    pc,             \* main's position: "start", "loaded" (between calls), "called"
                    \* (at the end of a plotting call, its locals still live)
    df,             \* read_data's first result: the raw frame
    df_transpose,   \* read_data's local, as it stands at line 27
    df_clean,       \* read_data's second result
    call,           \* the last plotting call: [fn, country_list, indicator_list, index]
    df_sub,         \* locals of the last plotting call, named as in the source
    df_pop,
    df_pop1,
    df_new,
    df_temp,
    corr_matrix,
    err             \* "" when the last call reached its end, else the failing step

vars == <<csv, pc, df, df_transpose, df_clean, call, df_sub, df_pop, df_pop1,
          df_new, df_temp, corr_matrix, err>>

----------------------------------------------------------------------------
(* Bounds of the explored inputs *)

MaxYears == 2
MaxRows == 2
MaxWideYears == 10
MaxWideRows == 2
MaxCorrYears == 3
MaxCorrRows == 2

----------------------------------------------------------------------------
(* Cells and labels *)

NaN == [k |-> "nan", s |-> "", n |-> 0]
Str(x) == [k |-> "str", s |-> x, n |-> 0]
Num(v) == [k |-> "num", s |-> "", n |-> v]
YearLabel(j) == [k |-> "str", s |-> "Y", n |-> j]

isna(c) == c.k = "nan"

Iota(n) == [i \in 1..n |-> i]
Range(s) == {s[i] : i \in 1..Len(s)}
Min2(a, b) == IF a < b THEN a ELSE b
Max2(a, b) == IF a > b THEN a ELSE b

NoFrame == [columns |-> <<>>, index |-> <<>>, data |-> <<>>]
NoCall == [fn |-> "", country_list |-> <<>>, indicator_list |-> <<>>, index |-> 0]

NCols(t) == Len(t.columns)
NRows(t) == Len(t.index)

----------------------------------------------------------------------------
(* pandas operations used by the program *)

\* frame.iloc[:, js] for a list js of (1-based) column positions
TakeCols(t, js) ==
    [columns |-> [p \in 1..Len(js) |-> t.columns[js[p]]],
     index   |-> t.index,
     data    |-> [i \in 1..NRows(t) |-> [p \in 1..Len(js) |-> t.data[i][js[p]]]]]

\* frame[mask] for the list is of (1-based) row positions where mask holds
TakeRows(t, is) ==
    [columns |-> t.columns,
     index   |-> [p \in 1..Len(is) |-> t.index[is[p]]],
     data    |-> [p \in 1..Len(is) |-> t.data[is[p]]]]

\* positions of the columns labelled lab
ColsLabelled(t, lab) == SelectSeq(Iota(NCols(t)), LAMBDA j : t.columns[j] = lab)

\* a test that looks at the first row only
ColumnCompleteFirstRow(t, j) == NRows(t) = 0 \/ ~isna(t.data[1][j])

\* a column with no missing value in any row
ColumnComplete(t, j) == \A i \in 1..NRows(t) : ~isna(t.data[i][j])

\* a mis-coded drop that removes a column only when all of its cells are missing
dropna_how_all(t) ==
    TakeCols(t, SelectSeq(Iota(NCols(t)),
        LAMBDA j : NRows(t) = 0 \/ \E i \in 1..NRows(t) : ~isna(t.data[i][j])))

\* a mis-coded drop that removes only the first column holding a missing value
dropna_first_only(t) ==
    LET bad == SelectSeq(Iota(NCols(t)), LAMBDA j : ~ColumnComplete(t, j))
    IN  TakeCols(t, SelectSeq(Iota(NCols(t)),
            LAMBDA j : bad = <<>> \/ j # bad[1]))

\* frame.dropna(axis=1): drop every column that holds a missing value
dropna(t) ==
    TakeCols(t, SelectSeq(Iota(NCols(t)), LAMBDA j : ColumnComplete(t, j)))

\* positions selected by the Python slice a:b on a sequence of length n
\* (a, b may be negative; the result is given 1-based)
PySlice(n, a, b) ==
    LET lo == IF a < 0 THEN Max2(n + a, 0) ELSE Min2(a, n)
        hi == IF b < 0 THEN Max2(n + b, 0) ELSE Min2(b, n)
    IN  [p \in 1..Max2(hi - lo, 0) |-> lo + p]

\* positions selected by the Python slice a: (no stop)
PySliceFrom(n, a) ==
    LET lo == IF a < 0 THEN Max2(n + a, 0) ELSE Min2(a, n)
    IN  [p \in 1..(n - lo) |-> lo + p]

\* pd.concat([a, b], axis=1) of two frames over the same rows
concat(a, b) ==
    [columns |-> a.columns \o b.columns,
     index   |-> a.index,
     data    |-> [i \in 1..NRows(a) |-> a.data[i] \o b.data[i]]]

\* frame.T
Transpose(t) ==
    [columns |-> t.index,
     index   |-> t.columns,
     data    |-> [j \in 1..NCols(t) |-> [i \in 1..NRows(t) |-> t.data[i][j]]]]

\* frame.reset_index(): the row labels become the first column, "index"
reset_index(t) ==
    [columns |-> <<Str("index")>> \o t.columns,
     index   |-> [i \in 1..NRows(t) |-> Num(i - 1)],
     data    |-> [i \in 1..NRows(t) |-> <<t.index[i]>> \o t.data[i]]]

\* frame.reset_index(drop=True)
reset_index_drop(t) ==
    [t EXCEPT !.index = [i \in 1..NRows(t) |-> Num(i - 1)]]

\* frame.drop(index=labels)
drop_index(t, labels) ==
    TakeRows(t, SelectSeq(Iota(NRows(t)), LAMBDA i : t.index[i] \notin labels))

\* frame.rename(columns={old: new})
rename(t, old, new) ==
    [t EXCEPT !.columns = [j \in 1..NCols(t) |->
        IF t.columns[j] = old THEN new ELSE t.columns[j]]]

\* frame.set_index([lab]) on a frame with exactly one column labelled lab
set_index(t, lab) ==
    LET j == ColsLabelled(t, lab)[1]
        rest == SelectSeq(Iota(NCols(t)), LAMBDA q : q # j)
    IN  [columns |-> [p \in 1..Len(rest) |-> t.columns[rest[p]]],
         index   |-> [i \in 1..NRows(t) |-> t.data[i][j]],
         data    |-> [i \in 1..NRows(t) |-> [p \in 1..Len(rest) |-> t.data[i][rest[p]]]]]

\* frame.drop(labels, axis=1), every label present
drop_columns(t, labels) ==
    TakeCols(t, SelectSeq(Iota(NCols(t)), LAMBDA j : t.columns[j] \notin labels))

\* series.isin(values) on one cell
isin(c, values) == c.k = "str" /\ c.s \in Range(values)

----------------------------------------------------------------------------
(* The labels the program names *)

CountryName == Str("Country Name")
CountryCode == Str("Country Code")
IndicatorName == Str("Indicator Name")
IndicatorCode == Str("Indicator Code")
Year == Str("Year")

\* frame[lab] of row i, for a label carried by one column
At(t, i, lab) == t.data[i][ColsLabelled(t, lab)[1]]

----------------------------------------------------------------------------
(* read_data *)

\* a transposition that removes only three of the four leading rows
read_transpose_drop3(d) ==
    LET t0 == reset_index(Transpose(d))
        t1 == [t0 EXCEPT !.columns = t0.data[1]]
        t2 == drop_index(t1, {Num(0), Num(1), Num(2)})
    IN  reset_index_drop(rename(t2, CountryName, Year))

\* df_transpose as it stands after line 27
read_transpose(d) ==
    LET t0 == reset_index(Transpose(d))
        t1 == [t0 EXCEPT !.columns = t0.data[1]]
        t2 == drop_index(t1, {Num(0), Num(1), Num(2), Num(3)})
    IN  reset_index_drop(rename(t2, CountryName, Year))

----------------------------------------------------------------------------
(* The filter shared by Statistics, Statistics_line and correlations *)

\* a mask that joins the two tests with "or"
filter_or(d, country_list, indicator_list) ==
    TakeRows(d, SelectSeq(Iota(NRows(d)), LAMBDA i :
        \/ isin(At(d, i, CountryName), country_list)
        \/ isin(At(d, i, IndicatorName), indicator_list)))

\* a mask that leaves the country test out
filter_indicator_only(d, country_list, indicator_list) ==
    TakeRows(d, SelectSeq(Iota(NRows(d)), LAMBDA i :
        isin(At(d, i, IndicatorName), indicator_list)))

\* df_sub: df[df["Country Name"].isin(country_list) & df["Indicator Name"].isin(indicator_list)]
filter(d, country_list, indicator_list) ==
    TakeRows(d, SelectSeq(Iota(NRows(d)), LAMBDA i :
        /\ isin(At(d, i, CountryName), country_list)
        /\ isin(At(d, i, IndicatorName), indicator_list)))

\* frame[frame[lab] == value]
where_eq(t, lab, value) ==
    TakeRows(t, SelectSeq(Iota(NRows(t)), LAMBDA i : At(t, i, lab) = Str(value)))

\* seq[index] for a Python index 0 <= index < len(seq)
Item(seq, index) == seq[index + 1]

----------------------------------------------------------------------------
(* Statistics and Statistics_line *)

\* the columns Statistics puts next to column 0 (positions in df_pop1)
bar_window(t, index) ==
    IF index = 1 THEN PySliceFrom(NCols(t), -6) ELSE PySlice(NCols(t), -8, -2)

\* a line window that takes the six trailing columns
line_window_last6(t) == PySliceFrom(NCols(t), -6)

\* the columns Statistics_line puts next to column 0 (positions in df_pop1)
line_window(t) == PySlice(NCols(t), -8, -2)

\* pd.concat([df_pop1.iloc[:, 0], df_pop1.iloc[:, window]], axis=1)
windowed(t, window) == concat(TakeCols(t, <<1>>), TakeCols(t, window))

\* set_index(["Country Name"]) fails unless one column carries the label
set_index_fails(t, lab) == Len(ColsLabelled(t, lab)) # 1

\* the columns a plot can draw: the year columns
NumericCols(t) == SelectSeq(Iota(NCols(t)), LAMBDA j : t.columns[j].s = "Y")

\* df_new.plot(kind="bar") fails on a frame with no numeric column or no row
bar_plot_fails(t) == NumericCols(t) = <<>> \/ NRows(t) = 0

----------------------------------------------------------------------------
(* correlations *)

RECURSIVE SumTo(_, _)
\* f(1) + ... + f(k), f a sequence of integers
SumTo(f, k) == IF k = 0 THEN 0 ELSE f[k] + SumTo(f, k - 1)

RECURSIVE GCD(_, _)
GCD(a, b) == IF b = 0 THEN a ELSE GCD(b, a % b)

\* k * sum(x*y) - sum(x) * sum(y): k*k times the covariance of x and y
CoMoment(x, y) ==
    LET k == Len(x)
    IN  k * SumTo([j \in 1..k |-> x[j] * y[j]], k) - SumTo(x, k) * SumTo(y, k)

\* A correlation is kept exactly: undefined (nan), or its sign and its square
\* num/den in lowest terms.
CorrNaN == [nan |-> TRUE, sgn |-> 0, num |-> 0, den |-> 1]
CorrOne == [nan |-> FALSE, sgn |-> 1, num |-> 1, den |-> 1]
Ratio(sgn, num, den) ==
    LET g == GCD(num, den)
    IN  [nan |-> FALSE, sgn |-> sgn, num |-> num \div g, den |-> den \div g]
Sign(v) == IF v > 0 THEN 1 ELSE IF v < 0 THEN -1 ELSE 0

\* the regression slope of y on x in place of the correlation: cov(x,y)/var(x)
pearson_slope(x, y) ==
    LET sxx == CoMoment(x, x)
        sxy == CoMoment(x, y)
    IN  IF sxx = 0 \/ CoMoment(y, y) = 0 THEN CorrNaN
        ELSE Ratio(Sign(sxy), sxy * sxy, sxx * sxx)

\* Pearson's r of two series of the same years: cov(x,y)/sqrt(var(x)*var(y)),
\* undefined when either variance is zero (fewer than two years, or a
\* constant series)
pearson(x, y) ==
    LET sxx == CoMoment(x, x)
        syy == CoMoment(y, y)
        sxy == CoMoment(x, y)
    IN  IF sxx = 0 \/ syy = 0 THEN CorrNaN
        ELSE Ratio(Sign(sxy), sxy * sxy, sxx * syy)

\* the numbers of row i
Series(t, i) == [j \in 1..NCols(t) |-> t.data[i][j].n]

\* df_temp.T.corr(): one row and one column per row of df_temp
corr(t) ==
    [columns |-> t.index,
     index   |-> t.index,
     data    |-> [a \in 1..NRows(t) |-> [b \in 1..NRows(t) |->
                    pearson(Series(t, a), Series(t, b))]]]

\* df_temp.drop([...], axis=1) fails when a label is not a column
drop_fails(t, labels) == \E lab \in labels : ColsLabelled(t, lab) = <<>>

\* sns.heatmap fails on a matrix with no entry
heatmap_fails(m) == NRows(m) = 0

----------------------------------------------------------------------------
(* The caller's raw frame across a plotting call *)

\* a call that drops the identifier columns of the caller's frame in place
raw_after_call_inplace(d) ==
    drop_columns(d, {CountryCode, IndicatorCode})

\* Boolean-mask indexing, dropna and concat build new frames, and the in-place
\* set_index and drop act on those: the frame passed in is left as it was
raw_after_call(d) == d

----------------------------------------------------------------------------
(* Input tables and arguments *)

Pop == "Population growth (annual %)"
CO2 == "CO2 emissions (kt)"

CodeOfCountry(c) ==
    CASE c = "India" -> "IND" [] c = "Nigeria" -> "NGA" [] OTHER -> "CHL"
CodeOfIndicator(i) ==
    IF i = Pop THEN "SP.POP.GROW" ELSE "EN.ATM.CO2E.KT"

\* the value a row with pattern pat reports for year j
Val(pat, j) ==
    CASE pat = "flat" -> 5
      [] pat = "up"   -> j
      [] OTHER        -> (j * j) % 5

\* A row of the file: its country and indicator, the pattern of its values,
\* and the one year (0: none) for which it reports nothing.
RowSpecs(countries, pats, misses) ==
    [country : countries, indicator : {Pop, CO2}, pat : pats, miss : misses]

\* the sequences over S of length at most k
SeqsUpTo(S, k) == UNION {[1..m -> S] : m \in 0..k}

\* The frame pd.read_csv builds from a file with n year columns and the rows
\* rs; codeNa: the first row's Country Code is empty in the file.
Table(n, rs, codeNa) ==
    [columns |-> <<CountryName, CountryCode, IndicatorName, IndicatorCode>>
                    \o [j \in 1..n |-> YearLabel(j)],
     index   |-> [i \in 1..Len(rs) |-> Num(i - 1)],
     data    |-> [i \in 1..Len(rs) |->
                    << Str(rs[i].country),
                       IF codeNa /\ i = 1 THEN NaN ELSE Str(CodeOfCountry(rs[i].country)),
                       Str(rs[i].indicator),
                       Str(CodeOfIndicator(rs[i].indicator)) >>
                    \o [j \in 1..n |-> IF j = rs[i].miss THEN NaN
                                       ELSE Num(Val(rs[i].pat, j))]]]

\* "Zimbabwe" occurs in no table
CountryLists == {<<"India", "Nigeria">>, <<"Zimbabwe">>}
IndicatorLists == {<<Pop, CO2>>, <<CO2, Pop>>}
Indexes == {0, 1}

----------------------------------------------------------------------------
(* The program *)

\* main before read_data: nothing is bound yet
NothingRead ==
    /\ pc = "start"
    /\ df = NoFrame
    /\ df_transpose = NoFrame
    /\ df_clean = NoFrame
    /\ call = NoCall
    /\ df_sub = NoFrame
    /\ df_pop = NoFrame
    /\ df_pop1 = NoFrame
    /\ df_new = NoFrame
    /\ df_temp = NoFrame
    /\ corr_matrix = NoFrame
    /\ err = ""

\* files of few years, with rows of a listed and of an unlisted country
Init ==
    /\ \E n \in 0..MaxYears, na \in BOOLEAN :
        \E rs \in SeqsUpTo(RowSpecs({"India", "Chile"}, {"up"}, 0..n), MaxRows) :
            csv = Table(n, rs, na)
    /\ NothingRead

\* files wide enough for the six-column windows
InitWide ==
    /\ \E n \in (MaxWideYears - 3)..MaxWideYears :
        \E rs \in SeqsUpTo(RowSpecs({"India", "Nigeria"}, {"up"}, {0, 1, n}), MaxWideRows) :
            csv = Table(n, rs, FALSE)
    /\ NothingRead

\* files whose rows differ in the shape of their series
InitCorr ==
    /\ \E n \in 0..MaxCorrYears, na \in BOOLEAN :
        \E rs \in SeqsUpTo(RowSpecs({"India"}, {"flat", "up", "sq"}, {0, n}), MaxCorrRows) :
            csv = Table(n, rs, na)
    /\ NothingRead

\* df, df_clean = read_data(filename)
ReadData ==
    /\ pc = "start"
    /\ pc' = "loaded"
    /\ df' = csv
    /\ df_transpose' = read_transpose(csv)
    /\ df_clean' = dropna(read_transpose(csv))
    /\ UNCHANGED <<csv, call, df_sub, df_pop, df_pop1, df_new, df_temp, corr_matrix, err>>

\* Statistics(df, country_list, indicator_list, index).  err names the step
\* that raised: "set_index" (the window reached back to column 0, so two
\* columns are labelled Country Name) or "plot" (nothing to draw).
Statistics ==
    /\ pc = "loaded"
    /\ \E country_list \in CountryLists, indicator_list \in IndicatorLists, index \in Indexes :
        LET sub  == filter(df, country_list, indicator_list)
            pop  == where_eq(sub, IndicatorName, Item(indicator_list, index))
            pop1 == dropna(pop)
            new  == windowed(pop1, bar_window(pop1, index))
        IN  /\ call' = [fn |-> "Statistics", country_list |-> country_list,
                        indicator_list |-> indicator_list, index |-> index]
            /\ df_sub' = sub
            /\ df_pop' = pop
            /\ df_pop1' = pop1
            /\ IF set_index_fails(new, CountryName)
               THEN df_new' = new /\ err' = "set_index"
               ELSE /\ df_new' = set_index(new, CountryName)
                    /\ err' = IF bar_plot_fails(df_new') THEN "plot" ELSE ""
    /\ df' = raw_after_call(df)
    /\ df_temp' = NoFrame
    /\ corr_matrix' = NoFrame
    /\ pc' = "called"
    /\ UNCHANGED <<csv, df_transpose, df_clean>>

\* Statistics_line(df, country_list, indicator_list, index).  The loop over
\* df_new.index draws one line per row and draws nothing for a frame
\* without rows.
StatisticsLine ==
    /\ pc = "loaded"
    /\ \E country_list \in CountryLists, indicator_list \in IndicatorLists, index \in Indexes :
        LET sub  == filter(df, country_list, indicator_list)
            pop  == where_eq(sub, IndicatorName, Item(indicator_list, index))
            pop1 == dropna(pop)
            new  == windowed(pop1, line_window(pop1))
        IN  /\ call' = [fn |-> "Statistics_line", country_list |-> country_list,
                        indicator_list |-> indicator_list, index |-> index]
            /\ df_sub' = sub
            /\ df_pop' = pop
            /\ df_pop1' = pop1
            /\ IF set_index_fails(new, CountryName)
               THEN df_new' = new /\ err' = "set_index"
               ELSE df_new' = set_index(new, CountryName) /\ err' = ""
    /\ df' = raw_after_call(df)
    /\ df_temp' = NoFrame
    /\ corr_matrix' = NoFrame
    /\ pc' = "called"
    /\ UNCHANGED <<csv, df_transpose, df_clean>>

\* correlations(df, country_list, indicator_list, index, cmapstyle), for an
\* index within country_list.  err names the step that raised: "drop" (an
\* identifier column was already dropped for a missing value) or "heatmap"
\* (nothing to draw).
Correlations ==
    /\ pc = "loaded"
    /\ \E country_list \in CountryLists, indicator_list \in IndicatorLists, index \in Indexes :
        LET sub  == filter(df, country_list, indicator_list)
            temp == dropna(where_eq(sub, CountryName, Item(country_list, index)))
            ids  == {CountryName, CountryCode, IndicatorCode}
        IN  /\ index < Len(country_list)
            /\ call' = [fn |-> "correlations", country_list |-> country_list,
                        indicator_list |-> indicator_list, index |-> index]
            /\ df_sub' = sub
            /\ IF drop_fails(set_index(temp, IndicatorName), ids)
               THEN /\ df_temp' = set_index(temp, IndicatorName)
                    /\ corr_matrix' = NoFrame
                    /\ err' = "drop"
               ELSE /\ df_temp' = drop_columns(set_index(temp, IndicatorName), ids)
                    /\ corr_matrix' = corr(df_temp')
                    /\ err' = IF heatmap_fails(corr_matrix') THEN "heatmap" ELSE ""
    /\ df' = raw_after_call(df)
    /\ df_pop' = NoFrame
    /\ df_pop1' = NoFrame
    /\ df_new' = NoFrame
    /\ pc' = "called"
    /\ UNCHANGED <<csv, df_transpose, df_clean>>

\* the plotting call returns to main: its locals are gone
Return ==
    /\ pc = "called"
    /\ pc' = "loaded"
    /\ call' = NoCall
    /\ df_sub' = NoFrame
    /\ df_pop' = NoFrame
    /\ df_pop1' = NoFrame
    /\ df_new' = NoFrame
    /\ df_temp' = NoFrame
    /\ corr_matrix' = NoFrame
    /\ err' = ""
    /\ UNCHANGED <<csv, df, df_transpose, df_clean>>

Next == ReadData \/ Statistics \/ StatisticsLine \/ Correlations \/ Return
NextCorr == ReadData \/ Correlations \/ Return

Spec == Init /\ [][Next]_vars
SpecWide == InitWide /\ [][Next]_vars
SpecCorr == InitCorr /\ [][NextCorr]_vars

----------------------------------------------------------------------------
(* Vocabulary of the properties *)

InCall(fn) == pc = "called" /\ call.fn = fn
InBarOrLine == pc = "called" /\ call.fn \in {"Statistics", "Statistics_line"}

IsYearLabel(c) == c.k = "str" /\ c.s = "Y"
NoMissing(t) == \A i \in 1..NRows(t) : \A j \in 1..NCols(t) : ~isna(t.data[i][j])

\* the rows of the raw frame (1-based positions) a call is about
BarLineRows ==
    {i \in 1..NRows(df) :
        /\ df.data[i][1].s \in Range(call.country_list)
        /\ df.data[i][3].s = call.indicator_list[call.index + 1]}
CorrRows ==
    {i \in 1..NRows(df) :
        /\ df.data[i][1].s = call.country_list[call.index + 1]
        /\ df.data[i][3].s \in Range(call.indicator_list)}

\* the columns a bar or line call put next to the Country Name column
Kept == IF err = "set_index" THEN Tail(df_new.columns) ELSE df_new.columns

\* no country of the call's list occurs in the raw frame
ListAbsent ==
    \A i \in 1..NRows(df) : df.data[i][1].s \notin Range(call.country_list)

----------------------------------------------------------------------------
(* C1: in Statistics, index = 1 keeps exactly the six trailing year columns *)
(* of the cleaned subset and any other index exactly the six columns at    *)
(* end-relative positions -8 to -3, and the kept columns are year columns  *)
(* only.  Stated for the calls whose subset has a row, those with data to  *)
(* plot.                                                                   *)
C1_BarWindowSixYears ==
    (InCall("Statistics") /\ NRows(df_pop1) > 0) =>
        LET N == NCols(df_pop1)
        IN  /\ Len(Kept) = 6
            /\ \A p \in 1..Len(Kept) : IsYearLabel(Kept[p])
            /\ Kept = IF call.index = 1
                      THEN SubSeq(df_pop1.columns, N - 5, N)
                      ELSE SubSeq(df_pop1.columns, N - 7, N - 2)

\* what does hold: the same, when enough year columns are left after the drop
C1_SixYearsWhenEnoughLeft ==
    (InCall("Statistics")
        /\ Len(SelectSeq(df_pop1.columns, IsYearLabel)) >= (IF call.index = 1 THEN 6 ELSE 8)) =>
        LET N == NCols(df_pop1)
        IN  /\ Len(Kept) = 6
            /\ \A p \in 1..Len(Kept) : IsYearLabel(Kept[p])
            /\ Kept = IF call.index = 1
                      THEN SubSeq(df_pop1.columns, N - 5, N)
                      ELSE SubSeq(df_pop1.columns, N - 7, N - 2)

(* C2: after every missing-value column drop (read_data, Statistics,       *)
(* Statistics_line, correlations) no remaining column holds a missing      *)
(* value.                                                                  *)
C2_NoMissingAfterDrop ==
    /\ pc # "start" => NoMissing(df_clean)
    /\ InBarOrLine => NoMissing(df_pop1)
    /\ InCall("correlations") => NoMissing(df_temp)

C2_Witness ==
    /\ InCall("Statistics")
    /\ NRows(df_pop1) > 0
    /\ NCols(df_pop1) < NCols(df_pop)
    /\ \E j \in 1..NCols(df_pop1) : IsYearLabel(df_pop1.columns[j])

(* C3: after the drop on a filtered subset a year column remains if and    *)
(* only if every row of the subset has a value for that year; a missing    *)
(* value in a row outside the subset drops nothing.                        *)
C3_RemainingYearsAreIntersection ==
    /\ InBarOrLine =>
        \A j \in 5..NCols(df) :
            df.columns[j] \in Range(df_pop1.columns)
                <=> \A i \in BarLineRows : ~isna(df.data[i][j])
    /\ InCall("correlations") =>
        \A j \in 5..NCols(df) :
            df.columns[j] \in Range(df_temp.columns)
                <=> \A i \in CorrRows : ~isna(df.data[i][j])

C3_Witness ==
    /\ InCall("Statistics_line")
    /\ \E j \in 5..NCols(df) :
        /\ df.columns[j] \in Range(df_pop1.columns)
        /\ \E i \in (1..NRows(df)) \ BarLineRows : isna(df.data[i][j])
    /\ BarLineRows # {}

(* C4: the filter of Statistics and Statistics_line selects exactly the    *)
(* raw rows whose country is in country_list and whose indicator is        *)
(* indicator_list[index], in the raw order, with their cells unchanged.    *)
C4_FilterSelectsExactly ==
    InBarOrLine =>
        /\ df_pop.columns = df.columns
        /\ \A i \in 1..NRows(df) :
            Num(i - 1) \in Range(df_pop.index) <=> i \in BarLineRows
        /\ NRows(df_pop) = Cardinality(BarLineRows)
        /\ \A p \in 1..NRows(df_pop) :
            /\ df_pop.data[p] = df.data[df_pop.index[p].n + 1]
            /\ p > 1 => df_pop.index[p - 1].n < df_pop.index[p].n

C4_Witness ==
    /\ InCall("Statistics_line")
    /\ NRows(df_pop) = 1
    /\ NRows(df) = 2
    /\ \E i \in 1..NRows(df) :
        /\ df.data[i][1].s \notin Range(call.country_list)
        /\ df.data[i][3].s = call.indicator_list[call.index + 1]

(* C5, as stated: with a country list none of whose countries occurs in    *)
(* the data the result is empty and the call reaches its end without an    *)
(* error.  Stated for the tables that have rows, of other countries.       *)
C5_AbsentCountryNoFailure ==
    (pc = "called" /\ ListAbsent /\ NRows(df) > 0) => (NRows(df_sub) = 0 /\ err = "")

(* C5, amended: with such a list the filter and the column drop yield an   *)
(* empty result, and Statistics and correlations then fail on it instead   *)
(* of reaching their end.                                                  *)
C5_AbsentCountryEmptyThenFails ==
    (pc = "called" /\ ListAbsent) =>
        /\ NRows(df_sub) = 0
        /\ InCall("Statistics") =>
            NRows(df_pop) = 0 /\ NRows(df_pop1) = 0 /\ err \in {"set_index", "plot"}
        /\ InCall("Statistics_line") => NRows(df_pop) = 0 /\ NRows(df_pop1) = 0
        /\ InCall("correlations") =>
            NRows(df_temp) = 0 /\ NRows(corr_matrix) = 0 /\ err = "heatmap"

C5_Witness ==
    /\ InCall("Statistics")
    /\ ListAbsent
    /\ NRows(df) = 2
    /\ NRows(df_sub) = 0
    /\ Len(Kept) = 6
    /\ err = "plot"

(* C6: the cleaning step is idempotent: cleaning a cleaned table, the      *)
(* transposed one of read_data or a filtered one, gives the same table.    *)
C6_CleaningIdempotent ==
    /\ pc # "start" => dropna(df_clean) = df_clean
    /\ InBarOrLine => dropna(df_pop1) = df_pop1
    /\ InCall("correlations") => dropna(df_temp) = df_temp

C6_Witness ==
    /\ pc = "loaded"
    /\ NCols(df_transpose) - NCols(df_clean) >= 2
    /\ NCols(df_clean) >= 1
    /\ NRows(df_clean) >= 2

(* C7: Statistics_line keeps the columns at end-relative positions -8 to   *)
(* -3 of the cleaned subset whatever the index, index = 1 included, and    *)
(* for an index other than 1 these are the columns Statistics keeps.       *)
C7_LineWindowIgnoresIndex ==
    InCall("Statistics_line") =>
        LET N == NCols(df_pop1)
            lo == Max2(N - 8, 0)
            hi == Max2(N - 2, 0)
        IN  /\ Kept = [p \in 1..(hi - lo) |-> df_pop1.columns[lo + p]]
            /\ call.index # 1 =>
                Kept = TakeCols(df_pop1, bar_window(df_pop1, call.index)).columns

C7_Witness ==
    /\ InCall("Statistics_line")
    /\ call.index = 1
    /\ err = ""
    /\ NRows(df_new) = 2
    /\ Len(Kept) = 6
    /\ \A p \in 1..Len(Kept) : IsYearLabel(Kept[p])
    /\ Kept # TakeCols(df_pop1, bar_window(df_pop1, 1)).columns
    /\ NCols(df_pop1) < NCols(df_pop)

(* C8, as stated: the correlation matrix is symmetric, entry [a][b] equal  *)
(* to entry [b][a], and every diagonal entry is 1.  Stated for the calls   *)
(* that are left with at least two year columns to correlate over.         *)
C8_SymmetricUnitDiagonal ==
    (InCall("correlations") /\ err \in {"", "heatmap"} /\ NCols(df_temp) >= 2) =>
        \A a \in 1..NRows(corr_matrix) :
            /\ corr_matrix.data[a][a] = CorrOne
            /\ \A b \in 1..NRows(corr_matrix) :
                /\ ~corr_matrix.data[a][b].nan
                /\ corr_matrix.data[a][b] = corr_matrix.data[b][a]

\* the values of row a of df_temp are all the same (so too with one year or none)
ConstantRow(a) ==
    \A j \in 1..NCols(df_temp) : \A q \in 1..NCols(df_temp) :
        df_temp.data[a][j] = df_temp.data[a][q]

(* C8, amended: the matrix has one row and one column per row of the       *)
(* country's subset; entries [a][b] and [b][a] are both undefined or       *)
(* equal; a diagonal entry is 1 when the indicator's values over the       *)
(* remaining years are not all equal, and undefined otherwise; an entry    *)
(* is undefined exactly when one of its two rows is constant.              *)
C8_SymmetricUnitOrUndefinedDiagonal ==
    (InCall("correlations") /\ err \in {"", "heatmap"}) =>
        /\ NRows(corr_matrix) = NRows(df_temp)
        /\ NCols(corr_matrix) = NRows(df_temp)
        /\ \A a \in 1..NRows(corr_matrix) :
            /\ corr_matrix.data[a][a] = IF ConstantRow(a) THEN CorrNaN ELSE CorrOne
            /\ \A b \in 1..NRows(corr_matrix) :
                /\ corr_matrix.data[a][b] = corr_matrix.data[b][a]
                /\ corr_matrix.data[a][b].nan <=> (ConstantRow(a) \/ ConstantRow(b))

C8_Witness ==
    /\ InCall("correlations")
    /\ err = ""
    /\ NRows(corr_matrix) = 2
    /\ corr_matrix.data[1][1] = CorrOne
    /\ corr_matrix.data[2][2] = CorrOne
    /\ ~corr_matrix.data[1][2].nan
    /\ corr_matrix.data[1][2].num < corr_matrix.data[1][2].den
    /\ corr_matrix.data[1][2].num > 0

====
